---- MODULE Spec2Model ----
(***************************************************************************)
(* Model of the analytics engine's job queue and processor                 *)
(* (src/analytics-engine/src/services/message_queue.py), of the job routes *)
(* that call it (src/api/routes/jobs.py) and of the lifespan that starts   *)
(* and stops it (main.py).                                                 *)
(*                                                                         *)
(* Redis is the environment: a list per queue (LPUSH at the left end,      *)
(* BRPOP from the right end), a key/value store whose entries carry an     *)
(* expiration time (SETEX), and a clock counted in hours.  Every Redis     *)
(* command may fail with a transport error; the number of injected         *)
(* failures is bounded by MaxFaults.                                       *)
(*                                                                         *)
(* Every await on a Redis command is a scheduling point of asyncio, so     *)
(* update_job_status is two steps (GET, then SETEX) and a consumption loop *)
(* is one step per await.  Code between two awaits runs atomically.        *)
(***************************************************************************)
EXTENDS Integers, Sequences, FiniteSets, TLC

(***************************************************************************)
(* Bounds of the model.                                                    *)
(***************************************************************************)
MaxPublish == 2
MaxFaults == 1
MaxCalls == 2
MaxTicks == 3

(***************************************************************************)
(* Program constants.                                                      *)
(***************************************************************************)
\* timedelta(hours=24) of the SETEX in update_job_status
TTL == 24

\* the five queues JobProcessor.start consumes, "analytics:<kind>"
Kinds == {"data_processing", "model_training", "prediction",
          "visualization", "statistical_analysis"}

JobIds == {"j1", "j2"}
\* message.get("id") of a message without id (None), or with a falsy id
NoId == ""
\* in place of the id: the payload is not JSON, json.loads (line 71) raises
Malformed == "malformed"

\* Python values passed as result / error_message.  "None" is None, "{}"
\* the empty dict and "" the empty string: the three falsy ones.
None == "None"
EmptyDict == "{}"
EmptyStr == ""
Truthy(x) == x \notin {None, EmptyDict, EmptyStr}

\* what a handler (processor_func) may return, and str(e) of what it raises
HandlerResults == {EmptyDict, "r1"}
HandlerErrors == {EmptyStr, "e1"}
\* str(e) of a Redis error raised by update_job_status
RedisErrorText == "redis_error"

\* marks a key the job record dict does not hold
Absent == "absent"

VARIABLES
    redis_client,   \* MessageQueueService.redis_client is set (not None)
    running,        \* JobProcessor.running
    startPc,        \* where the start() task of the lifespan is
    loop,           \* per kind: the _consume_queue task
    queues,         \* per kind: the Redis list, left end first
    store,          \* job id -> [value, expireAt]: the keys job_result:<id>
    now,            \* the clock, in hours
    faults,         \* transport failures injected so far
    sent,           \* history: the messages pushed, in order: [id, q]
    proc,           \* history: the messages whose processing write succeeded
    faulted,        \* history: messages whose status write hit a Redis error
    raised,         \* history: messages whose handler has raised
    caller,         \* a caller of update_job_status (the update-status route)
    calls,          \* update_job_status calls the caller has made
    written,        \* history: job id -> the time of its record's last write
    polled,         \* what the last get_job_result call returned
    ticks,          \* clock advances so far
    producer,       \* a publish_message call between its two commands
    channel,        \* per kind: history of the payloads broadcast (PUBLISH)
    cache,          \* CacheService: its redis_client and the keys it wrote
    ccall,          \* a get_or_compute_profile / _statistics call
    metrics,        \* PerformanceMonitor.metrics: the length of each list
    mon             \* the start_monitoring task: where it is, its cycles

\* the dispatcher's variables, and those of the callers of the queue client
dispatcherVars == <<running, startPc, loop, queues, sent, proc, faulted,
                    raised>>
callerVars == <<caller, calls, polled>>
clockVars == <<now, ticks>>
producerVars == <<producer, channel>>
cacheVars == <<cache, ccall>>
monitorVars == <<metrics, mon>>

vars == <<redis_client, running, startPc, loop, queues, store, now, faults,
          sent, proc, faulted, raised, caller, calls, written, polled,
          ticks, producer, channel, cache, ccall, metrics, mon>>

(***************************************************************************)
(* Redis.                                                                  *)
(***************************************************************************)
\* the outcomes of one Redis command: TRUE it succeeds, FALSE it raises
Outcomes == IF faults < MaxFaults THEN {TRUE, FALSE} ELSE {TRUE}

Fault(ok) == faults' = IF ok THEN faults ELSE faults + 1

\* GET job_result:<id>: the value as a sequence of at most one record
RedisGet(j) == IF j \in DOMAIN store THEN <<store[j].value>> ELSE <<>>

\* SET ... KEEPTTL in place of SETEX: an existing key keeps its expiration
RedisSetKeepTtl(j, value, t) ==
    [k \in DOMAIN store \cup {j} |->
        IF k = j
        THEN [value |-> value,
              expireAt |-> IF j \in DOMAIN store THEN store[j].expireAt
                           ELSE t + TTL]
        ELSE store[k]]

\* SETEX job_result:<id> 24h value, at time t
RedisSetex(j, value, t) ==
    [k \in DOMAIN store \cup {j} |->
        IF k = j THEN [value |-> value, expireAt |-> t + TTL] ELSE store[k]]

\* RPUSH in place of LPUSH
RedisRpush(q, m) == q \o <<m>>

\* LPUSH queue payload
RedisLpush(q, m) == <<m>> \o q

\* BRPOP queue: the element popped and the list left
RedisRpopValue(q) == q[Len(q)]
RedisRpopRest(q) == SubSeq(q, 1, Len(q) - 1)

\* the entries that have not expired at time t
Unexpired(t) ==
    [k \in {j \in DOMAIN store : store[j].expireAt > t} |-> store[k]]

(***************************************************************************)
(* MessageQueueService.update_job_status, lines 92-112: the record written *)
(* for (job_id, status, result, error_message) over the existing value.    *)
(***************************************************************************)
NewRecord(job_id) ==
    [jobId |-> job_id, status |-> "pending", result |-> Absent,
     errorMessage |-> Absent, completedAt |-> <<>>]

\* a write that replaces the record instead of merging into it
ReplaceRecord(existing, job_id, status, result, error_message, t) ==
    LET r1 == [NewRecord(job_id) EXCEPT !.status = status]
        r2 == IF Truthy(result) THEN [r1 EXCEPT !.result = result] ELSE r1
        r3 == IF Truthy(error_message)
              THEN [r2 EXCEPT !.errorMessage = error_message] ELSE r2
    IN  IF status \in {"completed", "failed"}
        THEN [r3 EXCEPT !.completedAt = <<t>>] ELSE r3

MergeRecord(existing, job_id, status, result, error_message, t) ==
    LET base == IF existing # <<>> THEN existing[1] ELSE NewRecord(job_id)
        r1 == [base EXCEPT !.status = status]
        r2 == IF Truthy(result) THEN [r1 EXCEPT !.result = result] ELSE r1
        r3 == IF Truthy(error_message)
              THEN [r2 EXCEPT !.errorMessage = error_message] ELSE r2
    IN  IF status \in {"completed", "failed"}
        THEN [r3 EXCEPT !.completedAt = <<t>>] ELSE r3

\* get_job_result answering a missing key with the record update_job_status
\* starts from
get_job_result_default(j) ==
    IF j \in DOMAIN store THEN <<store[j].value>> ELSE <<NewRecord(j)>>

\* MessageQueueService.get_job_result with the client connected and Redis
\* reachable: <<>> is the None it returns
get_job_result(j) == RedisGet(j)

\* no key job_result:<id> exists
EmptyStore == [j \in {} |-> [value |-> NewRecord(j), expireAt |-> 0]]

(***************************************************************************)
(* Initial state: the module's globals after construction.                 *)
(***************************************************************************)
\* raised: the call that has just ended raised to its caller
IdleCaller ==
    [pc |-> "idle", args |-> <<>>, job_result |-> <<>>, again |-> FALSE,
     raised |-> FALSE]
RaisedCaller == [IdleCaller EXCEPT !.raised = TRUE]
\* failures: the BRPOP errors the task has met; was: where the task was when
\* it was cancelled
\* no publish_message call is between its LPUSH and its PUBLISH
IdleProducer == [pc |-> "idle", k |-> "", m |-> <<>>]

\* the keys of the cache: CacheKeys.dataset_profile and CacheKeys.statistics
\* of one dataset (and one analysis type), and the monitor's summary
ProfileKey == "profile:d1"
StatsKey == "stats:d1:t1"
SummaryKey == "performance:metrics"
CacheKeys == {ProfileKey, StatsKey, SummaryKey}

\* no get_or_compute call is running; ret: what the last one returned,
\* erred: a Redis command of it has raised inside CacheService
IdleCall == [pc |-> "idle", key |-> "", held |-> <<>>, profile |-> <<>>,
             computes |-> 0, ret |-> <<>>, raised |-> FALSE,
             erred |-> FALSE]

\* PerformanceMonitor.metrics (lines 20-31)
SystemKeys == {"cpu_percent", "memory_percent", "disk_io_read",
               "disk_io_write", "network_io_sent", "network_io_recv"}
ApplicationKeys == {"request_count", "cache_hits", "cache_misses"}
MetricKeys == SystemKeys \cup ApplicationKeys \cup {"request_duration"}

IdleLoop == [pc |-> "off", msg |-> <<>>, job_result |-> <<>>, out |-> None,
             failures |-> 0, was |-> ""]

Init ==
    /\ redis_client = FALSE
    /\ running = FALSE
    /\ startPc = "idle"
    /\ loop = [k \in Kinds |-> IdleLoop]
    /\ queues = [k \in Kinds |-> <<>>]
    /\ store = EmptyStore
    /\ now = 0
    /\ faults = 0
    /\ sent = <<>>
    /\ proc = {}
    /\ faulted = {}
    /\ raised = {}
    /\ caller = IdleCaller
    /\ calls = 0
    /\ written = [j \in JobIds |-> <<>>]
    /\ polled = <<>>
    /\ ticks = 0
    /\ producer = IdleProducer
    /\ channel = [k \in Kinds |-> <<>>]
    /\ cache = [redis_client |-> FALSE, data |-> [key \in CacheKeys |-> <<>>]]
    /\ ccall = IdleCall
    /\ metrics = [key \in MetricKeys |-> 0]
    /\ mon = [pc |-> "off", monitoring |-> FALSE, cycles |-> 0,
              request_count |-> 0]

(***************************************************************************)
(* MessageQueueService.connect: from_url sets redis_client, then PING.     *)
(* The client stays set when the PING raises.                              *)
(***************************************************************************)
Connect ==
    /\ ~redis_client
    /\ startPc = "idle"
    /\ \E ok \in Outcomes :
        /\ redis_client' = TRUE
        /\ Fault(ok)
        \* main.py line 47: an error of connect() ends the lifespan's startup
        /\ startPc' = IF ok THEN "connected" ELSE "aborted"
    /\ UNCHANGED <<running, loop, queues, store, now, sent, proc,
                   faulted, raised>>
    /\ UNCHANGED <<callerVars, written, clockVars>>
    /\ UNCHANGED <<producerVars, cacheVars, monitorVars>>

(***************************************************************************)
(* MessageQueueService.publish_message(queue, message) by a producer.      *)
(* The message is a dict whose "id" is id (NoId: none); its other content  *)
(* is what tells it from the other messages, here its number n in sent.    *)
(* LPUSH, then PUBLISH on the notification channel: nothing in the program *)
(* subscribes to the channel, so the two commands are one step.            *)
(***************************************************************************)
\* the message publish_message is called with
NextMessage(id) == [id |-> id, n |-> Len(sent) + 1]

\* line 47: RuntimeError("Redis client not connected")
PublishNotConnected(k, id) ==
    /\ Len(sent) < MaxPublish
    /\ ~redis_client
    /\ UNCHANGED vars

\* line 51: LPUSH raises
PublishLpushFails(k, id) ==
    /\ Len(sent) < MaxPublish
    /\ redis_client
    /\ FALSE \in Outcomes
    /\ faults' = faults + 1
    /\ UNCHANGED <<redis_client, running, startPc, loop, queues, store, now,
                   sent, proc, faulted, raised>>
    /\ UNCHANGED <<callerVars, written, clockVars>>
    /\ UNCHANGED <<producerVars, cacheVars, monitorVars>>

\* line 54: LPUSH has succeeded and PUBLISH raises
PublishNotifyFails(k, id) ==
    /\ Len(sent) < MaxPublish
    /\ redis_client
    /\ FALSE \in Outcomes
    /\ queues' = [queues EXCEPT ![k] = RedisLpush(queues[k], NextMessage(id))]
    /\ sent' = Append(sent, [id |-> id, q |-> k])
    /\ faults' = faults + 1
    /\ UNCHANGED <<redis_client, running, startPc, loop, store, now, proc,
                   faulted, raised>>
    /\ UNCHANGED <<callerVars, written, clockVars>>
    /\ UNCHANGED <<producerVars, cacheVars, monitorVars>>

\* both commands succeed
PublishOk(k, id) ==
    /\ Len(sent) < MaxPublish
    /\ redis_client
    /\ queues' = [queues EXCEPT ![k] = RedisLpush(queues[k], NextMessage(id))]
    /\ sent' = Append(sent, [id |-> id, q |-> k])
    /\ UNCHANGED <<redis_client, running, startPc, loop, store, now, faults,
                   proc, faulted, raised>>
    /\ UNCHANGED <<callerVars, written, clockVars>>
    /\ channel' = [channel EXCEPT ![k] = Append(@, NextMessage(id))]
    /\ UNCHANGED <<producer, cacheVars, monitorVars>>

\* publish_message raises
PublishRaises(k, id) ==
    \/ PublishNotConnected(k, id)
    \/ PublishLpushFails(k, id)
    \/ PublishNotifyFails(k, id)

Publish(k, id) == PublishRaises(k, id) \/ PublishOk(k, id)

\* A producer outside this program (the queues are shared with the C# API)
\* pushes a payload that is not JSON on the list consume_message reads.
PushRaw(k) ==
    /\ Len(sent) < MaxPublish
    /\ queues' = [queues EXCEPT
                     ![k] = RedisLpush(queues[k], NextMessage(Malformed))]
    /\ sent' = Append(sent, [id |-> Malformed, q |-> k])
    /\ UNCHANGED <<redis_client, running, startPc, loop, store, now, faults,
                   proc, faulted, raised>>
    /\ UNCHANGED <<callerVars, written, clockVars>>
    /\ UNCHANGED <<producerVars, cacheVars, monitorVars>>

(***************************************************************************)
(* main.py lifespan: create_task(job_processor.start()) after connect()    *)
(* has returned; JobProcessor.start.                                        *)
(***************************************************************************)
CreateStartTask ==
    /\ startPc = "connected"
    /\ startPc' = "created"
    /\ UNCHANGED <<redis_client, running, loop, queues, store, now, faults,
                   sent, proc, faulted, raised>>
    /\ UNCHANGED <<callerVars, written, clockVars>>
    /\ UNCHANGED <<producerVars, cacheVars, monitorVars>>

\* start() runs: running = True, the five tasks are created and run, one
\* after the other, to their first await, the BRPOP of consume_message.
StartBegin ==
    /\ startPc \in {"created", "createdStopped"}
    /\ running' = TRUE
    /\ startPc' = "gather"
    /\ loop' = [k \in Kinds |-> [IdleLoop EXCEPT !.pc = "brpop"]]
    /\ UNCHANGED <<redis_client, queues, store, now, faults, sent, proc,
                   faulted, raised>>
    /\ UNCHANGED <<callerVars, written, clockVars>>
    /\ UNCHANGED <<producerVars, cacheVars, monitorVars>>

\* the positions of a consumption loop between BRPOP's return and the end
\* of the job's last status write
InFlight == {"procGet", "procSet", "handler", "doneGet", "doneSet",
             "failGet", "failSet"}
\* ... and those from the call of the handler on
HandlerBegun == {"handler", "doneGet", "doneSet", "failGet", "failSet"}

\* JobProcessor.stop() on a running processor
Stop ==
    /\ startPc = "gather"
    /\ running
    /\ running' = FALSE
    /\ UNCHANGED <<redis_client, startPc, loop, queues, store, now, faults,
                   sent, proc, faulted, raised>>
    /\ UNCHANGED <<callerVars, written, clockVars>>
    /\ UNCHANGED <<producerVars, cacheVars, monitorVars>>

\* stop() called after create_task(job_processor.start()) and before the
\* task has run for the first time: running, still False, is set to False
StopEarly ==
    /\ startPc = "created"
    /\ running' = FALSE
    /\ startPc' = "createdStopped"
    /\ UNCHANGED <<redis_client, loop, queues, store, now, faults, sent,
                   proc, faulted, raised>>
    /\ UNCHANGED <<callerVars, written, clockVars>>
    /\ UNCHANGED <<producerVars, cacheVars, monitorVars>>

\* start(): gather returns once the five loops have ended (line 163), the
\* finally clears running (line 167) and start() returns
StartReturn ==
    /\ startPc = "gather"
    /\ \A k \in Kinds : loop[k].pc = "exit"
    /\ startPc' = "returned"
    /\ running' = FALSE
    /\ UNCHANGED <<redis_client, loop, queues, store, now, faults, sent,
                   proc, faulted, raised>>
    /\ UNCHANGED <<callerVars, written, clockVars>>
    /\ UNCHANGED <<producerVars, cacheVars, monitorVars>>

\* main.py lines 68-74: job_processor.stop(), then job_processor_task.cancel()
\* with no await between them, then the task is awaited.  Cancelling the
\* start() task cancels the gather it awaits and with it the five loops:
\* each gets CancelledError at the await it is suspended in, which no
\* "except Exception" catches, and ends there.  A start() task that has not
\* run yet never runs.
Shutdown ==
    /\ startPc \in {"created", "createdStopped", "gather"}
    /\ running' = FALSE
    /\ startPc' = "cancelled"
    /\ loop' = [k \in Kinds |->
                  IF loop[k].pc \in {"off", "exit"} THEN loop[k]
                  ELSE [loop[k] EXCEPT !.pc = "cancelled", !.was = loop[k].pc]]
    /\ UNCHANGED <<redis_client, queues, store, now, faults, sent, proc,
                   faulted, raised>>
    /\ UNCHANGED <<callerVars, written, clockVars>>
    /\ UNCHANGED <<producerVars, cacheVars, monitorVars>>

(***************************************************************************)
(* JobProcessor._consume_queue(queue, processor_func), one step per await. *)
(***************************************************************************)
\* "while True:": the loop never reads the flag
WhileTrue(k) == "brpop"

\* "while self.running:" and, when it holds, the call of BRPOP
WhileRunning(k) == IF running THEN "brpop" ELSE "exit"

Goto(k, pc) == [loop[k] EXCEPT !.pc = pc, !.msg = <<>>, !.job_result = <<>>,
                               !.out = None]

\* the job whose message the loop holds
\* two tasks created with each other's queue
queue_name_swapped(k) ==
    IF k = "model_training" THEN "visualization"
    ELSE IF k = "visualization" THEN "model_training"
    ELSE k

\* lines 155-159: the queue_name the task running the handler of kind k is
\* created with, without its prefix "analytics:"
queue_name(k) == k

JobOf(k) == loop[k].msg[1].id
MsgOf(k) == loop[k].msg[1].n

\* a BRPOP error ends the loop instead of reaching the except of line 194
LoopBrpopCrash(k) ==
    /\ loop[k].pc = "brpop"
    /\ \E ok \in Outcomes :
        /\ Fault(ok)
        /\ IF ~redis_client \/ ~ok
           THEN /\ loop' = [loop EXCEPT ![k] =
                       [Goto(k, "exit") EXCEPT !.failures = @ + 1]]
                /\ UNCHANGED queues
           ELSE IF queues[k] = <<>>
           THEN /\ loop' = [loop EXCEPT ![k] = Goto(k, WhileRunning(k))]
                /\ UNCHANGED queues
           ELSE LET m == RedisRpopValue(queues[k]) IN
                /\ queues' = [queues EXCEPT ![k] = RedisRpopRest(queues[k])]
                /\ loop' = [loop EXCEPT ![k] =
                       IF m.id \in JobIds
                       THEN [Goto(k, "procGet") EXCEPT !.msg = <<m>>]
                       ELSE Goto(k, WhileRunning(k))]
    /\ UNCHANGED <<redis_client, running, startPc, store, now, sent, proc,
                   faulted, raised>>
    /\ UNCHANGED <<callerVars, written, clockVars>>
    /\ UNCHANGED <<producerVars, cacheVars, monitorVars>>

\* an empty queue treated as an error: the loop takes the backoff
LoopBrpopBackoff(k) ==
    /\ loop[k].pc = "brpop"
    /\ \E ok \in Outcomes :
        /\ Fault(ok)
        /\ IF ~redis_client \/ ~ok \/ queues[k] = <<>>
           THEN /\ loop' = [loop EXCEPT ![k] = Goto(k, "sleep")]
                /\ UNCHANGED queues
           ELSE LET m == RedisRpopValue(queues[k]) IN
                /\ queues' = [queues EXCEPT ![k] = RedisRpopRest(queues[k])]
                /\ loop' = [loop EXCEPT ![k] =
                       IF m.id \in JobIds
                       THEN [Goto(k, "procGet") EXCEPT !.msg = <<m>>]
                       ELSE Goto(k, WhileRunning(k))]
    /\ UNCHANGED <<redis_client, running, startPc, store, now, sent, proc,
                   faulted, raised>>
    /\ UNCHANGED <<callerVars, written, clockVars>>
    /\ UNCHANGED <<producerVars, cacheVars, monitorVars>>

\* consume_message returns (BRPOP with timeout=5): a message, None on an
\* empty queue, or an error
LoopBrpop(k) ==
    /\ loop[k].pc = "brpop"
    /\ \E ok \in Outcomes :
        /\ Fault(ok)
        /\ IF ~redis_client
           THEN /\ loop' = [loop EXCEPT ![k] = Goto(k, "sleep")]
                /\ UNCHANGED queues
           ELSE IF ~ok
           THEN /\ loop' = [loop EXCEPT ![k] =
                       [Goto(k, "sleep") EXCEPT !.failures = @ + 1]]
                /\ UNCHANGED queues
           ELSE IF queues[queue_name(k)] = <<>>
           THEN /\ loop' = [loop EXCEPT ![k] = Goto(k, WhileRunning(k))]
                /\ UNCHANGED queues
           ELSE LET m == RedisRpopValue(queues[queue_name(k)]) IN
                /\ queues' = [queues EXCEPT ![queue_name(k)] =
                                  RedisRpopRest(queues[queue_name(k)])]
                /\ loop' = [loop EXCEPT ![k] =
                       IF m.id = Malformed
                       THEN Goto(k, "sleep")   \* lines 71, 76-78, 194-196
                       ELSE IF m.id # NoId
                       THEN [Goto(k, "procGet") EXCEPT !.msg = <<m>>]
                       ELSE Goto(k, WhileRunning(k))]
    /\ UNCHANGED <<redis_client, running, startPc, store, now, sent, proc,
                   faulted, raised>>
    /\ UNCHANGED <<callerVars, written, clockVars>>
    /\ UNCHANGED <<producerVars, cacheVars, monitorVars>>

\* the GET of update_job_status(job_id, status, result, error_message) and
\* the merge that follows it; an error goes to onError
LoopGet(k, from, status, result, error_message, to, onError, errOut) ==
    /\ loop[k].pc = from
    /\ \E ok \in Outcomes :
        /\ Fault(ok)
        /\ IF ok
           THEN /\ loop' = [loop EXCEPT
                     ![k].pc = to,
                     ![k].job_result =
                         <<MergeRecord(RedisGet(JobOf(k)), JobOf(k), status,
                                       result, error_message, now)>>]
                /\ UNCHANGED faulted
           ELSE /\ loop' = [loop EXCEPT ![k] =
                     IF onError = "sleep" THEN Goto(k, "sleep")
                     ELSE [loop[k] EXCEPT !.pc = onError, !.out = errOut,
                                          !.job_result = <<>>]]
                /\ faulted' = faulted \cup {MsgOf(k)}
    /\ UNCHANGED <<redis_client, running, startPc, queues, store, now, sent,
                   proc, raised>>
    /\ UNCHANGED <<callerVars, written, clockVars>>
    /\ UNCHANGED <<producerVars, cacheVars, monitorVars>>

\* the SETEX of update_job_status; next is where the loop goes on success
LoopSet(k, from, next, onError, errOut) ==
    /\ loop[k].pc = from
    /\ \E ok \in Outcomes :
        /\ Fault(ok)
        /\ IF ok
           THEN /\ store' = RedisSetex(JobOf(k), loop[k].job_result[1], now)
                /\ written' = [written EXCEPT ![JobOf(k)] = <<now>>]
                /\ loop' = [loop EXCEPT ![k] =
                     IF next = "handler"
                     THEN [loop[k] EXCEPT !.pc = next, !.job_result = <<>>]
                     ELSE Goto(k, next)]
                /\ proc' = IF from = "procSet" THEN proc \cup {MsgOf(k)}
                           ELSE proc
                /\ UNCHANGED faulted
           ELSE /\ loop' = [loop EXCEPT ![k] =
                     IF onError = "sleep" THEN Goto(k, "sleep")
                     ELSE [loop[k] EXCEPT !.pc = onError, !.out = errOut,
                                          !.job_result = <<>>]]
                /\ faulted' = faulted \cup {MsgOf(k)}
                /\ UNCHANGED <<store, proc, written>>
    /\ UNCHANGED <<redis_client, running, startPc, queues, now, sent,
                   raised>>
    /\ UNCHANGED <<callerVars, clockVars>>
    /\ UNCHANGED <<producerVars, cacheVars, monitorVars>>

\* the handler called without the processing write of line 183
LoopProcSkip(k) ==
    /\ loop[k].pc = "procGet"
    /\ loop' = [loop EXCEPT ![k].pc = "handler"]
    /\ UNCHANGED <<redis_client, running, startPc, queues, store, now, faults,
                   sent, proc, faulted, raised>>
    /\ UNCHANGED <<callerVars, written, clockVars>>
    /\ UNCHANGED <<producerVars, cacheVars, monitorVars>>

\* line 183: update_job_status(job_id, "processing")
LoopProcGet(k) ==
    LoopGet(k, "procGet", "processing", None, None, "procSet", "sleep", None)
LoopProcSet(k) == LoopSet(k, "procSet", "handler", "sleep", None)

\* without the try of line 185: what the handler raises reaches the except of
\* line 194, and no failed status is written
LoopHandlerNoCatch(k) ==
    /\ loop[k].pc = "handler"
    /\ \/ \E r \in HandlerResults :
            /\ loop' = [loop EXCEPT ![k].pc = "doneGet", ![k].out = r]
            /\ UNCHANGED raised
       \/ /\ raised' = raised \cup {MsgOf(k)}
          /\ loop' = [loop EXCEPT ![k] = Goto(k, "sleep")]
    /\ UNCHANGED <<redis_client, running, startPc, queues, store, now, faults,
                   sent, proc, faulted>>
    /\ UNCHANGED <<callerVars, written, clockVars>>
    /\ UNCHANGED <<producerVars, cacheVars, monitorVars>>

\* without any except around the handler: what it raises ends the loop
LoopHandlerCrash(k) ==
    /\ loop[k].pc = "handler"
    /\ \/ \E r \in HandlerResults :
            /\ loop' = [loop EXCEPT ![k].pc = "doneGet", ![k].out = r]
            /\ UNCHANGED raised
       \/ /\ raised' = raised \cup {MsgOf(k)}
          /\ loop' = [loop EXCEPT ![k] = Goto(k, "exit")]
    /\ UNCHANGED <<redis_client, running, startPc, queues, store, now, faults,
                   sent, proc, faulted>>
    /\ UNCHANGED <<callerVars, written, clockVars>>
    /\ UNCHANGED <<producerVars, cacheVars, monitorVars>>

\* the handlers share one worker: a handler runs only while no other does
LoopHandlerSerial(k) ==
    /\ loop[k].pc = "handler"
    /\ \A o \in Kinds \ {k} : loop[o].pc # "handler"
    /\ \/ \E r \in HandlerResults :
            /\ loop' = [loop EXCEPT ![k].pc = "doneGet", ![k].out = r]
            /\ UNCHANGED raised
       \/ \E e \in HandlerErrors :
            /\ loop' = [loop EXCEPT ![k].pc = "failGet", ![k].out = e]
            /\ raised' = raised \cup {MsgOf(k)}
    /\ UNCHANGED <<redis_client, running, startPc, queues, store, now, faults,
                   sent, proc, faulted>>
    /\ UNCHANGED <<callerVars, written, clockVars>>
    /\ UNCHANGED <<producerVars, cacheVars, monitorVars>>

\* the handler started as a task of its own: the loop goes on at once
LoopHandlerDetached(k) ==
    /\ loop[k].pc = "handler"
    /\ loop' = [loop EXCEPT ![k] = Goto(k, WhileRunning(k))]
    /\ UNCHANGED <<redis_client, running, startPc, queues, store, now, faults,
                   sent, proc, faulted, raised>>
    /\ UNCHANGED <<callerVars, written, clockVars>>
    /\ UNCHANGED <<producerVars, cacheVars, monitorVars>>

\* a message whose handler raised is pushed back on its queue
LoopHandlerRequeue(k) ==
    /\ loop[k].pc = "handler"
    /\ \/ \E r \in HandlerResults :
            /\ loop' = [loop EXCEPT ![k].pc = "doneGet", ![k].out = r]
            /\ UNCHANGED <<raised, queues>>
       \/ \E e \in HandlerErrors :
            /\ loop' = [loop EXCEPT ![k].pc = "failGet", ![k].out = e]
            /\ raised' = raised \cup {MsgOf(k)}
            /\ queues' = [queues EXCEPT
                             ![k] = RedisLpush(queues[k], loop[k].msg[1])]
    /\ UNCHANGED <<redis_client, running, startPc, store, now, faults,
                   sent, proc, faulted>>
    /\ UNCHANGED <<callerVars, written, clockVars>>
    /\ UNCHANGED <<producerVars, cacheVars, monitorVars>>

\* line 186: await processor_func(message): it returns or raises
LoopHandler(k) ==
    /\ loop[k].pc = "handler"
    /\ \/ \E r \in HandlerResults :
            /\ loop' = [loop EXCEPT ![k].pc = "doneGet", ![k].out = r]
            /\ UNCHANGED raised
       \/ \E e \in HandlerErrors :
            /\ loop' = [loop EXCEPT ![k].pc = "failGet", ![k].out = e]
            /\ raised' = raised \cup {MsgOf(k)}
    /\ UNCHANGED <<redis_client, running, startPc, queues, store, now, faults,
                   sent, proc, faulted>>
    /\ UNCHANGED <<callerVars, written, clockVars>>
    /\ UNCHANGED <<producerVars, cacheVars, monitorVars>>

\* the completed write followed by the failed write of the except clause
LoopDoneSetThenFail(k) ==
    /\ loop[k].pc = "doneSet"
    /\ store' = RedisSetex(JobOf(k), loop[k].job_result[1], now)
    /\ written' = [written EXCEPT ![JobOf(k)] = <<now>>]
    /\ loop' = [loop EXCEPT ![k].pc = "failGet", ![k].job_result = <<>>,
                            ![k].out = "e1"]
    /\ UNCHANGED <<redis_client, running, startPc, queues, now, faults, sent,
                   proc, faulted, raised>>
    /\ UNCHANGED <<callerVars, clockVars>>
    /\ UNCHANGED <<producerVars, cacheVars, monitorVars>>

\* line 187: update_job_status(job_id, "completed", result), inside the try:
\* an error it raises is caught by the except of line 188
LoopDoneGet(k) ==
    LoopGet(k, "doneGet", "completed", loop[k].out, None, "doneSet",
            "failGet", RedisErrorText)
LoopDoneSet(k) ==
    LoopSet(k, "doneSet", WhileRunning(k), "failGet", RedisErrorText)

\* lines 190-192: update_job_status(job_id, "failed", error_message=str(e))
LoopFailGet(k) ==
    LoopGet(k, "failGet", "failed", None, loop[k].out, "failSet", "sleep",
            None)
LoopFailSet(k) == LoopSet(k, "failSet", WhileRunning(k), "sleep", None)

\* line 196: asyncio.sleep(5) returns
LoopSleep(k) ==
    /\ loop[k].pc = "sleep"
    /\ loop' = [loop EXCEPT ![k] = Goto(k, WhileRunning(k))]
    /\ UNCHANGED <<redis_client, running, startPc, queues, store, now, faults,
                   sent, proc, faulted, raised>>
    /\ UNCHANGED <<callerVars, written, clockVars>>
    /\ UNCHANGED <<producerVars, cacheVars, monitorVars>>

LoopStep(k) ==
    \/ LoopBrpop(k)
    \/ LoopProcGet(k)
    \/ LoopProcSet(k)
    \/ LoopHandler(k)
    \/ LoopDoneGet(k)
    \/ LoopDoneSet(k)
    \/ LoopFailGet(k)
    \/ LoopFailSet(k)
    \/ LoopSleep(k)

(***************************************************************************)
(* The callers of the queue client outside the dispatcher: the routes of   *)
(* src/api/routes/jobs.py.  update_job_status is called with any status    *)
(* string, any result and any error_message.                               *)
(***************************************************************************)
Statuses == {"pending", "processing", "completed", "failed"}
\* the route takes status: str
AnyStatus == Statuses \cup {"cancelled"}

\* the job the caller updates; get_job_result is called for every job id
CallerJobs == {"j1"}

UpdateArgs ==
    [job_id : CallerJobs, status : AnyStatus,
     result : {None, EmptyDict, "r1"}, error_message : {None, EmptyStr, "e1"}]

\* update_job_status(job_id, status, result, error_message) is called;
\* again: with the arguments of the call that has just returned (a retry)
CallUpdate(a, again) ==
    /\ calls < MaxCalls
    /\ calls' = calls + 1
    /\ polled' = <<>>
    /\ caller' = IF redis_client
                 THEN [pc |-> "get", args |-> <<a>>, job_result |-> <<>>,
                       again |-> again, raised |-> FALSE]
                 ELSE RaisedCaller   \* line 89: RuntimeError

UpdateCall(a) ==
    /\ caller.pc = "idle"
    /\ CallUpdate(a, FALSE)
    /\ UNCHANGED <<redis_client, dispatcherVars, store, faults, written,
                   clockVars>>
    /\ UNCHANGED <<producerVars, cacheVars, monitorVars>>

\* line 95: GET, and lines 96-112: the record to write
UpdateGet ==
    /\ caller.pc = "get"
    /\ \E ok \in Outcomes :
        /\ Fault(ok)
        /\ caller' =
             IF ok
             THEN LET a == caller.args[1] IN
                  [caller EXCEPT
                     !.pc = "set",
                     !.job_result =
                         <<MergeRecord(RedisGet(a.job_id), a.job_id, a.status,
                                       a.result, a.error_message, now)>>]
             ELSE RaisedCaller   \* lines 119-121
    /\ UNCHANGED <<redis_client, dispatcherVars, store, calls, written,
                   polled, clockVars>>
    /\ UNCHANGED <<producerVars, cacheVars, monitorVars>>

\* a SETEX error caught inside update_job_status and the command sent again
UpdateSetRetried ==
    /\ caller.pc = "set"
    /\ FALSE \in Outcomes
    /\ faults' = faults + 1
    /\ LET a == caller.args[1] IN
        /\ store' = RedisSetex(a.job_id, caller.job_result[1], now)
        /\ written' = [written EXCEPT ![a.job_id] = <<now>>]
    /\ caller' = IdleCaller
    /\ UNCHANGED <<redis_client, dispatcherVars, calls, polled, clockVars>>
    /\ UNCHANGED <<producerVars, cacheVars, monitorVars>>

\* line 116: SETEX with timedelta(hours=24) raises
UpdateSetFails ==
    /\ caller.pc = "set"
    /\ FALSE \in Outcomes
    /\ faults' = faults + 1
    /\ caller' = RaisedCaller
    /\ UNCHANGED <<redis_client, dispatcherVars, store, calls, written,
                   polled, clockVars>>
    /\ UNCHANGED <<producerVars, cacheVars, monitorVars>>

\* the write made only when the key holds no record yet (first write wins)
UpdateSetIfAbsent ==
    /\ caller.pc = "set"
    /\ LET a == caller.args[1] IN
        IF a.job_id \in DOMAIN store
        THEN UNCHANGED <<store, written>>
        ELSE /\ store' = RedisSetex(a.job_id, caller.job_result[1], now)
             /\ written' = [written EXCEPT ![a.job_id] = <<now>>]
    /\ caller' = IdleCaller
    /\ UNCHANGED <<redis_client, dispatcherVars, faults, calls, polled,
                   clockVars>>
    /\ UNCHANGED <<producerVars, cacheVars, monitorVars>>

\* line 116: SETEX succeeds and the call returns; the caller leaves it at
\* that
UpdateSet ==
    /\ caller.pc = "set"
    /\ LET a == caller.args[1] IN
        /\ store' = RedisSetex(a.job_id, caller.job_result[1], now)
        /\ written' = [written EXCEPT ![a.job_id] = <<now>>]
    /\ caller' = IdleCaller
    /\ UNCHANGED <<redis_client, dispatcherVars, faults, calls, polled,
                   clockVars>>
    /\ UNCHANGED <<producerVars, cacheVars, monitorVars>>

\* ... or makes the same call again
UpdateSetRetry ==
    /\ caller.pc = "set"
    /\ LET a == caller.args[1] IN
        /\ store' = RedisSetex(a.job_id, caller.job_result[1], now)
        /\ written' = [written EXCEPT ![a.job_id] = <<now>>]
        /\ CallUpdate(a, TRUE)
    /\ UNCHANGED <<redis_client, dispatcherVars, faults, clockVars>>
    /\ UNCHANGED <<producerVars, cacheVars, monitorVars>>

\* a read that renews the lifetime of the record it returns (GETEX)
PollTouch(j) ==
    /\ caller.pc = "idle"
    /\ \E ok \in Outcomes :
        /\ faults' = IF redis_client /\ ~ok THEN faults + 1 ELSE faults
        /\ polled' = IF redis_client /\ ok
                     THEN <<[id |-> j, ret |-> get_job_result(j),
                             raised |-> FALSE]>>
                     ELSE <<[id |-> j, ret |-> <<>>, raised |-> TRUE]>>
        /\ store' = IF redis_client /\ ok /\ j \in DOMAIN store
                    THEN [store EXCEPT ![j].expireAt = now + TTL]
                    ELSE store
    /\ UNCHANGED <<redis_client, dispatcherVars, caller, calls,
                   written, clockVars>>
    /\ UNCHANGED <<producerVars, cacheVars, monitorVars>>

\* get_job_result(job_id) is called: what it returns, or that it raised
Poll(j) ==
    /\ caller.pc = "idle"
    /\ \E ok \in Outcomes :
        /\ faults' = IF redis_client /\ ~ok THEN faults + 1 ELSE faults
        /\ polled' = IF redis_client /\ ok
                     THEN <<[id |-> j, ret |-> get_job_result(j),
                             raised |-> FALSE]>>
                     ELSE <<[id |-> j, ret |-> <<>>, raised |-> TRUE]>>
    /\ UNCHANGED <<redis_client, dispatcherVars, store, caller, calls,
                   written, clockVars>>
    /\ UNCHANGED <<producerVars, cacheVars, monitorVars>>

(***************************************************************************)
(* The clock: d hours pass, and Redis drops the entries that have expired. *)
(***************************************************************************)
TickHours == {1, TTL - 1}

Tick(d) ==
    /\ ticks < MaxTicks
    /\ ticks' = ticks + 1
    /\ now' = now + d
    /\ store' = Unexpired(now + d)
    /\ UNCHANGED <<redis_client, dispatcherVars, faults, callerVars, written>>
    /\ UNCHANGED <<producerVars, cacheVars, monitorVars>>

StoreNext ==
    \/ Connect
    \/ \E a \in UpdateArgs : UpdateCall(a)
    \/ UpdateGet
    \/ UpdateSetFails
    \/ UpdateSet
    \/ UpdateSetRetry
    \/ \E j \in JobIds : Poll(j)
    \/ \E d \in TickHours : Tick(d)

StoreSpec == Init /\ [][StoreNext]_vars

Next ==
    \/ Connect
    \/ \E k \in Kinds, id \in JobIds \cup {NoId} : Publish(k, id)
    \/ CreateStartTask
    \/ StartBegin
    \/ \E k \in Kinds : LoopStep(k)

Spec == Init /\ [][Next]_vars

(***************************************************************************)
(* asyncio runs every task that is ready: a consumption loop whose await   *)
(* has returned takes its next step.  A handler that terminates is a       *)
(* handler step that is taken.  Producers and Redis failures are under no  *)
(* obligation.                                                             *)
(***************************************************************************)
\* The five loops run the same code, so the producers of the liveness
\* specifications publish on two of the queues; all five loops run.
LiveKinds == {"model_training", "visualization"}

LiveNext ==
    \/ Connect
    \/ \E k \in LiveKinds, id \in JobIds \cup {NoId} : Publish(k, id)
    \/ CreateStartTask
    \/ StartBegin
    \/ \E k \in Kinds : LoopStep(k)

FairSpec == Init /\ [][LiveNext]_vars /\ \A k \in Kinds : WF_vars(LoopStep(k))

(***************************************************************************)
(* The processor is stopped: stop() alone (StopSpec), and the shutdown of   *)
(* the lifespan, stop() then cancel() (ShutdownSpec).  One producer queue.  *)
(***************************************************************************)
StopKinds == {"visualization"}

StopNext ==
    \/ Connect
    \/ \E k \in StopKinds, id \in JobIds \cup {NoId} : Publish(k, id)
    \/ CreateStartTask
    \/ StartBegin
    \/ \E k \in Kinds : LoopStep(k)
    \/ Stop
    \/ StartReturn

StopSpec ==
    /\ Init /\ [][StopNext]_vars
    /\ \A k \in Kinds : WF_vars(LoopStep(k))
    /\ WF_vars(StartReturn)

\* stop() at any time from the creation of the start() task on; the task,
\* once created, runs
EarlyStopNext ==
    \/ Connect
    \/ \E k \in StopKinds, id \in JobIds \cup {NoId} : Publish(k, id)
    \/ CreateStartTask
    \/ StartBegin
    \/ \E k \in Kinds : LoopStep(k)
    \/ StopEarly
    \/ Stop
    \/ StartReturn

EarlyStopSpec ==
    /\ Init /\ [][EarlyStopNext]_vars
    /\ \A k \in Kinds : WF_vars(LoopStep(k))
    /\ WF_vars(StartBegin)
    /\ WF_vars(StartReturn)

ShutdownNext ==
    \/ Connect
    \/ \E k \in StopKinds, id \in JobIds \cup {NoId} : Publish(k, id)
    \/ CreateStartTask
    \/ StartBegin
    \/ \E k \in Kinds : LoopStep(k)
    \/ Shutdown

ShutdownSpec == Init /\ [][ShutdownNext]_vars

(***************************************************************************)
(* The request-scoped callers of the queue client: producers, the status   *)
(* route and the update-status route, each call made once.                 *)
(***************************************************************************)
TransportNext ==
    \/ Connect
    \/ \E k \in StopKinds, id \in JobIds \cup {NoId} : Publish(k, id)
    \/ \E a \in UpdateArgs : UpdateCall(a)
    \/ UpdateGet
    \/ UpdateSetFails
    \/ UpdateSet
    \/ \E j \in JobIds : Poll(j)

TransportSpec == Init /\ [][TransportNext]_vars

(***************************************************************************)
(* The update-status route called while the dispatcher processes the same  *)
(* job: two update_job_status calls on one job id, each a GET and a SETEX. *)
(***************************************************************************)
RaceArgs ==
    {a \in UpdateArgs : /\ a.status \in {"processing", "completed"}
                        /\ a.result \in {None, "r1"}
                        /\ a.error_message = None}

RaceNext ==
    \/ Connect
    \/ \E k \in StopKinds, id \in CallerJobs : Publish(k, id)
    \/ CreateStartTask
    \/ StartBegin
    \/ \E k \in Kinds : LoopStep(k)
    \/ \E a \in RaceArgs : UpdateCall(a)
    \/ UpdateGet
    \/ UpdateSetFails
    \/ UpdateSet

RaceSpec == Init /\ [][RaceNext]_vars

(***************************************************************************)
(* Producers outside the program push payloads that are not JSON.          *)
(***************************************************************************)
DecodeNext ==
    \/ Connect
    \/ \E k \in LiveKinds, id \in JobIds \cup {NoId} : Publish(k, id)
    \/ \E k \in LiveKinds : PushRaw(k)
    \/ CreateStartTask
    \/ StartBegin
    \/ \E k \in Kinds : LoopStep(k)

DecodeSpec == Init /\ [][DecodeNext]_vars

(***************************************************************************)
(* publish_message command by command: LPUSH (line 51), then PUBLISH on    *)
(* the channel "<queue_name>:notification" (line 54), with the loops       *)
(* consuming meanwhile.  The payload is message_json of line 50, the same  *)
(* string in both commands; it stands here as the message it encodes.      *)
(***************************************************************************)
\* the broadcast made first, the append after it
PubBroadcastFirst(k, id) ==
    /\ producer.pc = "idle"
    /\ Len(sent) < MaxPublish
    /\ redis_client
    /\ channel' = [channel EXCEPT ![k] = Append(@, NextMessage(id))]
    /\ producer' = [pc |-> "append", k |-> k, m |-> <<NextMessage(id)>>]
    /\ UNCHANGED <<redis_client, running, startPc, loop, queues, store, now,
                   faults, sent, proc, faulted, raised>>
    /\ UNCHANGED <<callerVars, written, clockVars>>
    /\ UNCHANGED <<cacheVars, monitorVars>>

\* lines 46-51: the call, json.dumps and the LPUSH; an error is raised
PubLpush(k, id) ==
    /\ producer.pc = "idle"
    /\ Len(sent) < MaxPublish
    /\ redis_client
    /\ \E ok \in Outcomes :
        /\ Fault(ok)
        /\ IF ok
           THEN /\ queues' = [queues EXCEPT
                                 ![k] = RedisLpush(queues[k], NextMessage(id))]
                /\ sent' = Append(sent, [id |-> id, q |-> k])
                /\ producer' = [pc |-> "notify", k |-> k,
                                m |-> <<NextMessage(id)>>]
           ELSE UNCHANGED <<queues, sent, producer>>
    /\ UNCHANGED <<redis_client, running, startPc, loop, store, now, proc,
                   faulted, raised, channel>>
    /\ UNCHANGED <<callerVars, written, clockVars>>
    /\ UNCHANGED <<cacheVars, monitorVars>>

\* line 54: the PUBLISH of the same message_json; an error is raised
PubNotify ==
    /\ producer.pc = "notify"
    /\ \E ok \in Outcomes :
        /\ Fault(ok)
        /\ channel' = IF ok
                      THEN [channel EXCEPT
                               ![producer.k] = Append(@, producer.m[1])]
                      ELSE channel
    /\ producer' = IdleProducer
    /\ UNCHANGED <<redis_client, running, startPc, loop, queues, store, now,
                   sent, proc, faulted, raised>>
    /\ UNCHANGED <<callerVars, written, clockVars>>
    /\ UNCHANGED <<cacheVars, monitorVars>>

NotifyNext ==
    \/ Connect
    \/ \E k \in LiveKinds, id \in JobIds \cup {NoId} : PubLpush(k, id)
    \/ PubNotify
    \/ CreateStartTask
    \/ StartBegin
    \/ \E k \in Kinds : LoopStep(k)

NotifySpec == Init /\ [][NotifyNext]_vars

(***************************************************************************)
(* cache_service.py: CacheService over its own Redis client, and the       *)
(* cache-aside calls of CachedDataProcessor.  A value is stored as         *)
(* json.dumps writes it and read as json.loads returns it: for the dicts   *)
(* compute_func returns, the same dict.  get and set log a Redis error     *)
(* and do not raise it (lines 59-61 and 86-87).                            *)
(***************************************************************************)
\* the expirations, in seconds (set: int(expiration.total_seconds()))
ProfileExpiration == 3600
StatsExpiration == 1800
SummaryExpiration == 300

Expiration(key) ==
    IF key = ProfileKey THEN ProfileExpiration
    ELSE IF key = StatsKey THEN StatsExpiration
    ELSE SummaryExpiration

\* what compute_func returns: a dict, empty or not
ComputeResults == {EmptyDict, "p1"}

\* CacheService.connect: from_url sets redis_client, then PING
CacheConnect ==
    /\ ~cache.redis_client
    /\ \E ok \in Outcomes :
        /\ Fault(ok)
        /\ cache' = [cache EXCEPT !.redis_client = TRUE]
    /\ UNCHANGED <<redis_client, dispatcherVars, store, callerVars, written,
                   clockVars>>
    /\ UNCHANGED <<producerVars, ccall, monitorVars>>

\* Redis drops a key whose expiration has passed
CacheExpire(key) ==
    /\ cache.data[key] # <<>>
    /\ cache' = [cache EXCEPT !.data[key] = <<>>]
    /\ UNCHANGED <<redis_client, dispatcherVars, store, faults, callerVars,
                   written, clockVars>>
    /\ UNCHANGED <<producerVars, ccall, monitorVars>>

\* CacheService.set(key, value, expiration) at its Redis command (line 83)
CacheSetData(key, value, ok) ==
    IF ok
    THEN [cache EXCEPT
             !.data[key] = <<[value |-> value, ex |-> Expiration(key)]>>]
    ELSE cache

\* get_or_compute_profile / get_or_compute_statistics is called; cache.get
\* raises RuntimeError when the client is not connected (line 46)
GetOrComputeCall(key) ==
    /\ ccall.pc = "idle"
    /\ ccall' = IF cache.redis_client
                THEN [IdleCall EXCEPT !.pc = "get", !.key = key]
                ELSE [IdleCall EXCEPT !.key = key, !.raised = TRUE]
    /\ UNCHANGED <<redis_client, dispatcherVars, store, faults, callerVars,
                   written, clockVars>>
    /\ UNCHANGED <<producerVars, cache, monitorVars>>

\* 'if cached_profile:' (line 251), 'if cached_stats:' (line 270)
HitIfTruthy(cached) == Truthy(cached)

\* a Redis error of cache.get raised to the caller of get_or_compute
CacheGetRaises ==
    /\ ccall.pc = "get"
    /\ \E ok \in Outcomes :
        /\ Fault(ok)
        /\ LET held == cache.data[ccall.key]
               cached == IF held # <<>> THEN held[1].value ELSE None
           IN  ccall' = IF ~ok
                        THEN [ccall EXCEPT !.pc = "idle", !.held = held,
                                           !.raised = TRUE, !.erred = TRUE]
                        ELSE IF HitIfTruthy(cached)
                        THEN [ccall EXCEPT !.pc = "idle", !.held = held,
                                           !.ret = <<cached>>]
                        ELSE [ccall EXCEPT !.pc = "compute", !.held = held]
    /\ UNCHANGED <<redis_client, dispatcherVars, store, callerVars, written,
                   clockVars>>
    /\ UNCHANGED <<producerVars, cache, monitorVars>>

\* cache.get(cache_key) returns (lines 49-61), then the test of line 251
CacheGet ==
    /\ ccall.pc = "get"
    /\ \E ok \in Outcomes :
        /\ Fault(ok)
        /\ LET held == cache.data[ccall.key]
               cached == IF ok /\ held # <<>> THEN held[1].value ELSE None
           IN  ccall' = IF HitIfTruthy(cached)
                        THEN [ccall EXCEPT !.pc = "idle", !.held = held,
                                           !.ret = <<cached>>]
                        ELSE [ccall EXCEPT !.pc = "compute", !.held = held,
                                           !.erred = ~ok]
    /\ UNCHANGED <<redis_client, dispatcherVars, store, callerVars, written,
                   clockVars>>
    /\ UNCHANGED <<producerVars, cache, monitorVars>>

\* line 257 / 276: await compute_func()
Compute ==
    /\ ccall.pc = "compute"
    /\ \E r \in ComputeResults :
        ccall' = [ccall EXCEPT !.pc = "set", !.profile = <<r>>,
                               !.computes = @ + 1]
    /\ UNCHANGED <<redis_client, dispatcherVars, store, faults, callerVars,
                   written, clockVars>>
    /\ UNCHANGED <<producerVars, cache, monitorVars>>

\* line 260 / 279: cache.set(cache_key, profile, expiration), then the return
CacheSet ==
    /\ ccall.pc = "set"
    /\ \E ok \in Outcomes :
        /\ Fault(ok)
        /\ cache' = CacheSetData(ccall.key, ccall.profile[1], ok)
        /\ ccall' = [ccall EXCEPT !.pc = "idle", !.ret = ccall.profile,
                                  !.erred = @ \/ ~ok]
    /\ UNCHANGED <<redis_client, dispatcherVars, store, callerVars, written,
                   clockVars>>
    /\ UNCHANGED <<producerVars, monitorVars>>

CacheNext ==
    \/ CacheConnect
    \/ \E key \in {ProfileKey, StatsKey} : GetOrComputeCall(key)
    \/ CacheGet
    \/ Compute
    \/ CacheSet
    \/ \E key \in {ProfileKey, StatsKey} : CacheExpire(key)

CacheSpec == Init /\ [][CacheNext]_vars

(***************************************************************************)
(* performance_monitor.py: the start_monitoring task.  A list of           *)
(* PerformanceMonitor.metrics is its length.  A cycle is                   *)
(* _collect_system_metrics, _collect_application_metrics and the sleep.    *)
(* A psutil call may raise: the except of line 85 ends the collection      *)
(* there, before the trimming of lines 81-83.                              *)
(***************************************************************************)
MaxCycles == 102

\* lines 82-83: more than 100 entries are cut to the last 100
KeepLast == 100

\* where _collect_system_metrics raises, if it does
PsutilOutcomes ==
    IF faults < MaxFaults
    THEN {"ok", "cpu", "memory", "disk", "network"}
    ELSE {"ok"}

\* the lists _collect_system_metrics has appended to when it ends at 'at'
AppendedBefore(at) ==
    IF at = "cpu" THEN {}
    ELSE IF at = "memory" THEN {"cpu_percent"}
    ELSE IF at = "disk" THEN {"cpu_percent", "memory_percent"}
    ELSE IF at = "network"
    THEN {"cpu_percent", "memory_percent", "disk_io_read", "disk_io_write"}
    ELSE SystemKeys

\* lines 81-83, for one list
KeepOnlyLast(len) == IF len > KeepLast THEN KeepLast ELSE len

\* start_monitoring is called: monitoring = True and the loop is entered
StartMonitoring ==
    /\ mon.pc = "off"
    /\ mon' = [mon EXCEPT !.pc = "system", !.monitoring = TRUE]
    /\ UNCHANGED <<redis_client, dispatcherVars, store, faults, callerVars,
                   written, clockVars>>
    /\ UNCHANGED <<producerVars, cacheVars, metrics>>

\* stop_monitoring
StopMonitoring ==
    /\ mon.monitoring
    /\ mon' = [mon EXCEPT !.monitoring = FALSE]
    /\ UNCHANGED <<redis_client, dispatcherVars, store, faults, callerVars,
                   written, clockVars>>
    /\ UNCHANGED <<producerVars, cacheVars, metrics>>

\* _collect_system_metrics (lines 57-86)
CollectSystemMetrics ==
    /\ mon.pc = "system"
    /\ mon.cycles < MaxCycles
    /\ \E at \in PsutilOutcomes :
        /\ faults' = IF at = "ok" THEN faults ELSE faults + 1
        /\ LET appended == [key \in MetricKeys |->
                               IF key \in AppendedBefore(at)
                               THEN metrics[key] + 1 ELSE metrics[key]]
           IN  metrics' = IF at = "ok"
                          THEN [key \in MetricKeys |->
                                   KeepOnlyLast(appended[key])]
                          ELSE appended
    /\ mon' = [mon EXCEPT !.pc = "application"]
    /\ UNCHANGED <<redis_client, dispatcherVars, store, callerVars, written,
                   clockVars>>
    /\ UNCHANGED <<producerVars, cacheVars>>

\* _collect_application_metrics (lines 88-107): the three appends, then the
\* summary is stored through cache_service.set; an error of it is logged
CollectApplicationMetrics ==
    /\ mon.pc = "application"
    /\ metrics' = [key \in MetricKeys |->
                      IF key \in ApplicationKeys
                      THEN metrics[key] + 1 ELSE metrics[key]]
    /\ IF cache.redis_client
       THEN \E ok \in Outcomes :
               /\ Fault(ok)
               /\ cache' = CacheSetData(SummaryKey, "summary", ok)
       ELSE UNCHANGED <<faults, cache>>
    /\ mon' = [mon EXCEPT !.pc = "sleep", !.cycles = @ + 1]
    /\ UNCHANGED <<redis_client, dispatcherVars, store, callerVars, written,
                   clockVars>>
    /\ UNCHANGED <<producerVars, ccall>>

\* line 47: the sleep ends, and the while of line 43
MonitorSleep ==
    /\ mon.pc = "sleep"
    /\ mon' = [mon EXCEPT !.pc = IF mon.monitoring THEN "system" ELSE "exit"]
    /\ UNCHANGED <<redis_client, dispatcherVars, store, faults, callerVars,
                   written, clockVars>>
    /\ UNCHANGED <<producerVars, cacheVars, metrics>>

\* lines 115-116: more than 1000 durations are cut to the last 1000
KeepDurations == 1000

MaxRequests == 102

\* lines 115-116, on the length of the list
KeepOnlyLastDurations(len) ==
    IF len > KeepDurations THEN KeepDurations ELSE len

\* record_request(duration) (lines 109-116), called by a request handler:
\* it runs while the monitoring task is at an await or is not running
RecordRequest ==
    /\ mon.pc \in {"off", "sleep", "exit"}
    /\ mon.request_count < MaxRequests
    /\ mon' = [mon EXCEPT !.request_count = @ + 1]
    /\ metrics' = [metrics EXCEPT
                      !["request_duration"] = KeepOnlyLastDurations(@ + 1)]
    /\ UNCHANGED <<redis_client, dispatcherVars, store, faults, callerVars,
                   written, clockVars>>
    /\ UNCHANGED <<producerVars, cacheVars>>

MonitorNext ==
    \/ CacheConnect
    \/ StartMonitoring
    \/ StopMonitoring
    \/ CollectSystemMetrics
    \/ CollectApplicationMetrics
    \/ MonitorSleep

MonitorSpec == Init /\ [][MonitorNext]_vars

\* the monitoring task and the requests that record their durations
RequestNext ==
    \/ StartMonitoring
    \/ StopMonitoring
    \/ CollectSystemMetrics
    \/ CollectApplicationMetrics
    \/ MonitorSleep
    \/ RecordRequest

RequestSpec == Init /\ [][RequestNext]_vars

(***************************************************************************)
(* What the claims speak of.                                               *)
(***************************************************************************)
Messages == 1 .. MaxPublish

\* message n has been pushed on its queue
Pushed(n) == n \in DOMAIN sent

InQueue(n) ==
    /\ n \in DOMAIN sent
    /\ \E i \in 1 .. Len(queues[sent[n].q]) : queues[sent[n].q][i].n = n

Dequeued(n) == Pushed(n) /\ ~InQueue(n)

\* message n carries a job id that no other pushed message carries
PushedOnce(n) ==
    /\ Pushed(n)
    /\ sent[n].id \in JobIds
    /\ \A m \in DOMAIN sent : sent[m].id = sent[n].id => m = n

StatusIn(j, S) ==
    get_job_result(j) # <<>> /\ get_job_result(j)[1].status \in S

Terminal(n) ==
    n \in DOMAIN sent /\ StatusIn(sent[n].id, {"completed", "failed"})

Completed(n) == n \in DOMAIN sent /\ StatusIn(sent[n].id, {"completed"})

\* the handler of message n's queue has raised before
RaisedOnQueueOf(n) ==
    n \in DOMAIN sent /\ \E m \in raised : sent[m].q = sent[n].q

IsoSpec == Init /\ [][LiveNext]_vars /\ WF_vars(LoopStep("visualization"))

\* C2: whatever the other loops' handlers do (IsoSpec), a job enqueued on the
\* visualization queue reaches status completed, unless its own handler
\* raises or a Redis error hits its status updates.
C2_VisualizationIndependent ==
    \A n \in Messages :
        (PushedOnce(n) /\ running /\ sent[n].q = "visualization")
            ~> (Completed(n) \/ n \in raised \/ n \in faulted)

\* C2 witness: a visualization job is completed while the model_training
\* handler is still running for another job
C2_Witness ==
    \E n \in DOMAIN sent :
        /\ sent[n].q = "visualization"
        /\ PushedOnce(n)
        /\ Completed(n)
        /\ loop["model_training"].pc = "handler"

\* C3: of two messages pushed on the same queue, the later one is dequeued
\* only after the earlier one, and its processing write happens only after
\* the earlier one's (when the earlier one carries an id and no Redis error
\* hit its status update).
C3_Fifo ==
    \A a, b \in DOMAIN sent :
        (a < b /\ sent[a].q = sent[b].q) =>
            /\ Dequeued(b) => Dequeued(a)
            /\ (b \in proc /\ sent[a].id \in JobIds) =>
                   (a \in proc \/ a \in faulted)

\* C3 witness: two messages of one queue have both been set to processing
C3_Witness ==
    \E a, b \in DOMAIN sent :
        a < b /\ sent[a].q = sent[b].q /\ a \in proc /\ b \in proc

C6_LoopSurvivesHandlerFailure ==
    \A n \in Messages :
        (InQueue(n) /\ running /\ RaisedOnQueueOf(n))
            ~> (Dequeued(n)
                /\ (sent[n].id = NoId \/ n \in proc \/ n \in faulted))

\* C6 witness: after the handler raised for a message, a later message of
\* the same queue has been set to processing
C6_Witness ==
    \E a, b \in DOMAIN sent :
        a < b /\ sent[a].q = sent[b].q /\ a \in raised /\ b \in proc

\* C7: a call of update_job_status repeated with the same arguments leaves
\* the record as the first call left it.
C7_UpdateIdempotent ==
    [][((UpdateSet \/ UpdateSetRetry) /\ caller.again
            /\ caller.args[1].job_id \in DOMAIN store) =>
          store'[caller.args[1].job_id].value
              = store[caller.args[1].job_id].value]_vars

\* C8: a record is returned by get_job_result during the 24 hours after its
\* last write, and not after them.
C8_Ttl ==
    \A j \in JobIds :
        written[j] # <<>> =>
            /\ now < written[j][1] + TTL => get_job_result(j) # <<>>
            /\ now > written[j][1] + TTL => get_job_result(j) = <<>>

\* C8 witness: a record written again later is still there 23 hours after
\* that write, past the 24 hours of its first write
C8_Witness ==
    \E j \in JobIds :
        /\ written[j] # <<>>
        /\ written[j][1] > 0
        /\ now = written[j][1] + TTL - 1
        /\ get_job_result(j) # <<>>

\* a job id that was never written, or whose record has expired
NoRecord(j) == written[j] = <<>> \/ now >= written[j][1] + TTL

\* C9: get_job_result for a job id without record, never written or expired,
\* returns None and does not raise.
C9_NotFoundIsNone ==
    [][\A j \in JobIds :
          (Poll(j) /\ redis_client /\ faults' = faults /\ NoRecord(j)) =>
              polled' = <<[id |-> j, ret |-> <<>>, raised |-> FALSE]>>]_vars

\* C9 witness: None was returned for a job id whose record has expired
C9_Witness ==
    \E j \in JobIds :
        /\ written[j] # <<>>
        /\ polled = <<[id |-> j, ret |-> <<>>, raised |-> FALSE]>>

\* C10: a publish_message call that raises has left the queues as they were.
C10_NoPartialEnqueue ==
    [][\A k \in Kinds, id \in JobIds \cup {NoId} :
          PublishRaises(k, id) => queues' = queues]_vars

\* C11: a message waiting on a queue whose loop has met a BRPOP error is
\* still dequeued by that loop once Redis answers again: the error sends the
\* loop to its backoff and back to BRPOP, never out of the while loop.
C11_DequeueFailureRetries ==
    \A n \in Messages :
        (InQueue(n) /\ running /\ loop[sent[n].q].failures > 0)
            ~> Dequeued(n)

\* C11 witness: a loop whose BRPOP has failed holds a job it has dequeued
\* since
C11_Witness ==
    \E k \in Kinds :
        loop[k].failures > 0 /\ loop[k].pc = "procGet" /\ running

\* C12: when the shutdown of the lifespan is complete, no consumption loop
\* has been cancelled between the call of its handler and the end of the
\* job's terminal status write.
C12_NoCancelMidHandler ==
    startPc = "cancelled" =>
        \A k \in Kinds : loop[k].was \notin HandlerBegun

\* C13: after stop() on a running processor, a loop that is not inside BRPOP
\* never calls BRPOP again and a loop that has left its while loop stays
\* out; every loop leaves, and start() returns with running False.
C13_StopEndsLoops ==
    /\ [][\A k \in Kinds :
            /\ (startPc = "gather" /\ ~running /\ loop[k].pc # "brpop")
                   => loop'[k].pc # "brpop"
            /\ loop[k].pc = "exit" => loop'[k] = loop[k]]_vars
    /\ (startPc = "gather" /\ ~running)
           ~> (startPc = "returned" /\ ~running
               /\ \A k \in Kinds : loop[k].pc = "exit")

\* C13 witness: start() has returned after a stop, a job was brought to its
\* terminal status and a message pushed since is left on its queue
C13_Witness ==
    /\ startPc = "returned"
    /\ ~running
    /\ \E n, m \in DOMAIN sent : Terminal(n) /\ InQueue(m)

\* C14: when a loop dequeues a payload that is not JSON, it goes on to write
\* a failed status for it (the failed write of lines 190-192), not to the
\* backoff sleep of the transport errors.
C14_MalformedMarkedFailed ==
    [][\A k \in Kinds :
          (/\ LoopBrpop(k)
           /\ queues[k] # <<>>
           /\ queues'[k] # queues[k]
           /\ RedisRpopValue(queues[k]).id = Malformed)
              => loop'[k].pc = "failGet"]_vars

\* C15: in every stored record the result is present only when the status is
\* completed, and the errorMessage only when the status is failed.
C15_FieldsMatchStatus ==
    \A j \in DOMAIN store :
        /\ store[j].value.result # Absent
               => store[j].value.status = "completed"
        /\ store[j].value.errorMessage # Absent
               => store[j].value.status = "failed"

\* C16: a record whose status is pending or processing has no completedAt,
\* and a completedAt that is set is never changed by a later write of the
\* record.
C16_CompletedAtSetOnce ==
    /\ [](\A j \in DOMAIN store :
             store[j].value.status \in {"pending", "processing"}
                 => store[j].value.completedAt = <<>>)
    /\ [][\A j \in DOMAIN store \cap DOMAIN store' :
             store[j].value.completedAt # <<>>
                 => store'[j].value.completedAt
                        = store[j].value.completedAt]_vars

\* the status get_job_result reports for job j; Absent: no record
StatusOf(j) ==
    IF get_job_result(j) = <<>> THEN Absent ELSE get_job_result(j)[1].status

\* the steps of the state machine pending -> processing -> completed | failed,
\* a record that does not exist yet counting as pending
StatusStep(s, t) ==
    \/ s = t
    \/ s \in {Absent, "pending"} /\ t = "processing"
    \/ s = "processing" /\ t \in {"completed", "failed"}

\* C17: the status of a job id enqueued exactly once, which only the
\* dispatcher updates, changes only along pending -> processing ->
\* completed | failed: a completed or failed status never changes.
C17_StatusMonotone ==
    [][\A n \in DOMAIN sent :
          PushedOnce(n)' =>
              StatusStep(StatusOf(sent[n].id), StatusOf(sent[n].id)')]_vars

\* C17 witness: the job of a message enqueued once has gone through
\* processing to failed, its handler having raised
C17_Witness ==
    \E n \in DOMAIN sent :
        /\ PushedOnce(n)
        /\ n \in proc
        /\ n \in raised
        /\ StatusOf(sent[n].id) = "failed"

\* C18: the status of every stored record is one of pending, processing,
\* completed, failed.
C18_StatusInDomain ==
    \A j \in DOMAIN store : store[j].value.status \in Statuses

\* C19: update_job_status on a job id without record goes on to its write,
\* and the record it writes has the id as jobId and the given status; when
\* the record exists, result, errorMessage and completedAt stay as they were
\* unless the call passes a result, an error_message or a terminal status.
C19_Upsert ==
    [][/\ (UpdateGet /\ faults' = faults) => caller'.pc = "set"
       /\ (UpdateSet \/ UpdateSetRetry) =>
              LET a == caller.args[1]
                  j == caller.args[1].job_id
              IN  /\ j \in DOMAIN store'
                  /\ store'[j].value.jobId = j
                  /\ store'[j].value.status = a.status
                  /\ j \in DOMAIN store =>
                        /\ a.result = None =>
                              store'[j].value.result = store[j].value.result
                        /\ a.error_message = None =>
                              store'[j].value.errorMessage
                                  = store[j].value.errorMessage
                        /\ a.status \notin {"completed", "failed"} =>
                              store'[j].value.completedAt
                                  = store[j].value.completedAt]_vars

\* C19 witness: a record that was completed with a result and then set to
\* processing by a call without result still has its result and completedAt
C19_Witness ==
    \E j \in DOMAIN store :
        /\ store[j].value.jobId = j
        /\ store[j].value.status = "processing"
        /\ store[j].value.result = "r1"
        /\ store[j].value.completedAt # <<>>

\* C20: no stored record carries the text of a Redis error as errorMessage.
C20_NoTransportTextInRecord ==
    \A j \in DOMAIN store : store[j].value.errorMessage # RedisErrorText

\* C21: a BRPOP that Redis answers on an empty queue returns None: no queue
\* and no record changes, and the loop is back at BRPOP (at the end of the
\* while loop once stopped), not in the backoff sleep.
C21_EmptyPollIsQuiet ==
    [][\A k \in Kinds :
          (LoopBrpop(k) /\ redis_client /\ faults' = faults
              /\ queues[k] = <<>>) =>
              /\ queues' = queues
              /\ store' = store
              /\ loop'[k].pc = WhileRunning(k)
              /\ loop'[k].pc # "sleep"]_vars

\* C21 witness: a loop that has brought a job to its terminal status is back
\* polling its queue, which is empty
C21_Witness ==
    \E n \in DOMAIN sent :
        /\ Terminal(n)
        /\ n \in proc
        /\ queues[sent[n].q] = <<>>
        /\ loop[sent[n].q].pc = "brpop"
        /\ loop[sent[n].q].failures = 0
        /\ running

\* C23: a loop is at its handler, or past it, only for a message whose
\* processing write has succeeded; and a record's status becomes completed
\* or failed only by the write of a loop whose handler has returned or
\* raised for that job.
C23_WritesAroundHandler ==
    /\ [](\A k \in Kinds :
             loop[k].pc \in HandlerBegun => MsgOf(k) \in proc)
    /\ [][\A j \in JobIds :
             (/\ ~StatusIn(j, {"completed", "failed"})
              /\ StatusIn(j, {"completed", "failed"})') =>
                 \E k \in Kinds :
                     /\ loop[k].pc \in {"doneSet", "failSet"}
                     /\ JobOf(k) = j
                     /\ loop[k].out # None
                     /\ loop'[k].pc \notin HandlerBegun]_vars

\* C23 witness: a job is completed after its handler returned
C23_Witness ==
    \E n \in DOMAIN sent :
        /\ n \in proc
        /\ n \notin raised
        /\ n \notin faulted
        /\ StatusOf(sent[n].id) = "completed"

\* C24: every message a loop dequeues (its payload being JSON) is passed to
\* the handler: the loop goes on to the processing write that precedes the
\* handler call, or to the handler call itself.
C24_EveryMessageHandled ==
    [][\A k \in Kinds :
          (/\ LoopBrpop(k)
           /\ queues[k] # <<>>
           /\ queues'[k] # queues[k]
           /\ RedisRpopValue(queues[k]).id # Malformed)
              => loop'[k].pc \in {"procGet", "handler"}]_vars

\* C22: a Redis error during update_job_status, get_job_result or
\* publish_message ends the call by raising, after the one command that
\* failed and with no new call; a failed update_job_status leaves the stored
\* records as they were.
C22_TransportErrorsRaise ==
    [][/\ ((UpdateGet /\ faults' # faults) \/ UpdateSetFails) =>
              /\ caller' = RaisedCaller
              /\ faults' = faults + 1
              /\ calls' = calls
              /\ store' = store
       /\ \A j \in JobIds :
              (Poll(j) /\ faults' # faults) =>
                  /\ polled' = <<[id |-> j, ret |-> <<>>, raised |-> TRUE]>>
                  /\ faults' = faults + 1
                  /\ store' = store
       /\ \A k \in Kinds, id \in JobIds \cup {NoId} :
              (PublishLpushFails(k, id) \/ PublishNotifyFails(k, id)) =>
                  /\ faults' = faults + 1
                  /\ Len(queues'[k]) <= Len(queues[k]) + 1
                  /\ store' = store]_vars

\* C22 witness: an update_job_status call on an existing record has raised
\* and the record is the one written before
C22_Witness ==
    /\ caller = RaisedCaller
    /\ faults > 0
    /\ redis_client
    /\ \E j \in DOMAIN store : store[j].value.status = "processing"

\* C27: a handler is only ever invoked with a message that was enqueued on
\* the queue of its own kind, for each of the five kinds.
C27_HandlerOfOwnKind ==
    \A k \in Kinds :
        loop[k].pc \in HandlerBegun => sent[MsgOf(k)].q = k

\* C27 witness: the handlers of two kinds each hold a message of their kind
C27_Witness ==
    \E k1, k2 \in Kinds :
        /\ k1 # k2
        /\ loop[k1].pc \in HandlerBegun /\ sent[MsgOf(k1)].q = k1
        /\ loop[k2].pc \in HandlerBegun /\ sent[MsgOf(k2)].q = k2

\* message n has been dequeued and its loop has not finished with it: no
\* terminal status is written and no status write of it has raised
InProgress(n) ==
    /\ PushedOnce(n)
    /\ Dequeued(n)
    /\ ~Terminal(n)
    /\ n \notin faulted

\* C28: at most one message per kind is between its dequeue and the end of
\* its terminal status write: a loop dequeues its next message only after
\* the handler and the terminal write of the current one have finished.
C28_OneHandlerPerKind ==
    \A a, b \in Messages :
        (a # b /\ InProgress(a) /\ InProgress(b)) => sent[a].q # sent[b].q

\* C28 witness: the handlers of two kinds are in progress at the same time,
\* and a second message of one of the kinds waits in its queue
C28_Witness ==
    \E k1, k2 \in Kinds :
        /\ k1 # k2
        /\ loop[k1].pc = "handler" /\ InProgress(MsgOf(k1))
        /\ loop[k2].pc = "handler" /\ InProgress(MsgOf(k2))

\* C28 witness of the waiting: a message is in the queue of a kind whose
\* handler is in progress
C28_WaitingWitness ==
    \E k \in Kinds, n \in Messages :
        /\ loop[k].pc = "handler"
        /\ InQueue(n) /\ sent[n].q = k /\ n # MsgOf(k)

\* C29 as stated: until connect() has succeeded no call changes a queue or
\* a record.
C29_NotConnectedChangesNothing ==
    [][(startPc \in {"idle", "aborted"}) =>
           (queues' = queues /\ store' = store)]_vars

\* C25: every successful publish_message(queue, m) appends m to the queue
\* and then broadcasts the same payload exactly once on the channel of that
\* queue; no payload is broadcast before it was appended.
C25_AppendThenBroadcastOnce ==
    /\ [](\A k \in Kinds : \A i \in 1 .. Len(channel[k]) :
            /\ channel[k][i].n \in DOMAIN sent
            /\ sent[channel[k][i].n] = [id |-> channel[k][i].id, q |-> k]
            /\ \A j \in 1 .. Len(channel[k]) :
                   channel[k][j] = channel[k][i] => j = i)
    /\ [][(producer.pc = "notify" /\ producer'.pc = "idle"
              /\ faults' = faults) =>
              /\ producer.m[1].n \in DOMAIN sent
              /\ sent[producer.m[1].n].q = producer.k
              /\ channel'[producer.k] =
                     Append(channel[producer.k], producer.m[1])]_vars

\* C25 witness: two calls on one queue have succeeded, the first message
\* dequeued by its loop meanwhile, and each payload is on the channel
C25_Witness ==
    \E k \in Kinds :
        /\ Len(channel[k]) = 2
        /\ producer.pc = "idle"
        /\ Dequeued(channel[k][1].n)

\* C26 as stated: a get_or_compute call that returns has not called
\* compute_func and returns the cached value when the cache held a value
\* for the key; otherwise it has called compute_func once and the value it
\* returns is stored under the key with the expiration of the key.
C26_CacheAside ==
    [][(ccall.pc # "idle" /\ ccall'.pc = "idle") =>
          IF ccall'.held # <<>>
          THEN /\ ccall'.computes = 0
               /\ ccall'.ret = <<ccall'.held[1].value>>
          ELSE /\ ccall'.computes = 1
               /\ cache'.data[ccall'.key] =
                      <<[value |-> ccall'.ret[1],
                         ex |-> Expiration(ccall'.key)]>>]_vars

\* C26, the cached half alone: no call that found a value under the key
\* has called compute_func.
C26_NoComputeOnHit ==
    ccall.held # <<>> => ccall.computes = 0

\* C30 as stated: when a monitoring cycle is complete, every list of
\* metrics other than request_duration holds at most 100 entries.
C30_AtMostKeepLast ==
    mon.pc = "sleep" =>
        \A key \in MetricKeys \ {"request_duration"} :
            metrics[key] <= KeepLast

\* C31 as stated: after any interleaving of n record_request calls with
\* monitoring cycles, the list request_duration holds min(n, 1000) durations.
C31_LastThousandDurations ==
    metrics["request_duration"] =
        IF mon.request_count < KeepDurations
        THEN mon.request_count ELSE KeepDurations

\* C32 as stated: once a profile is stored for the dataset, a later
\* get_or_compute_profile call that reads the cache, without a Redis error,
\* while the entry is there returns the stored profile and does not go on
\* to compute_func, whatever the stored profile is.
C32_StoredProfileReused ==
    [][(/\ ccall.pc = "get"
        /\ ccall.key = ProfileKey
        /\ cache.data[ProfileKey] # <<>>
        /\ ccall'.pc # "get"
        /\ faults' = faults) =>
           /\ ccall'.pc = "idle"
           /\ ccall'.ret = <<cache.data[ProfileKey][1].value>>]_vars

\* C38: with a connected client, a get_or_compute call in which the cache
\* read or the cache write raised a Redis error does not raise: it has
\* called compute_func exactly once and returns what compute_func returned.
C38_BackendErrorDoesNotFailCall ==
    [][(ccall.pc # "idle" /\ ccall'.pc = "idle" /\ ccall'.erred) =>
           /\ ~ccall'.raised
           /\ ccall'.computes = 1
           /\ ccall'.profile # <<>>
           /\ ccall'.ret = ccall'.profile]_vars

\* C38 witness: a call whose cache write raised has returned the computed
\* value, which is not in the cache
C38_Witness ==
    /\ ccall.pc = "idle"
    /\ ccall.erred
    /\ ~ccall.raised
    /\ ccall.computes = 1
    /\ ccall.ret = ccall.profile /\ ccall.ret # <<>>
    /\ cache.data[ccall.key] = <<>>

\* the fields of a job record that an update can add
RecordFields == {"result", "errorMessage", "completedAt"}

Unset(f) == IF f = "completedAt" THEN <<>> ELSE Absent

\* C33 as stated: when update_job_status calls on one job id interleave, no
\* field written by one call is lost: a field a stored record has is still
\* there after the write of any call.
C33_NoFieldLost ==
    [][\A j \in DOMAIN store :
          j \in DOMAIN store' =>
              \A f \in RecordFields :
                  store[j].value[f] # Unset(f) =>
                      store'[j].value[f] # Unset(f)]_vars

\* C33 amended: the last write wins.  The update_job_status call whose
\* SETEX comes last leaves its own status, and its result and error message
\* when it has them, in the record, with a new lifetime of 24 hours,
\* whatever the other call wrote since this one read the record.
C33_LastWriteWins ==
    [][/\ (caller.pc = "set" /\ caller'.pc = "idle" /\ ~caller'.raised) =>
              LET a == caller.args[1] IN
              /\ a.job_id \in DOMAIN store'
              /\ store'[a.job_id].expireAt = now + TTL
              /\ store'[a.job_id].value.status = a.status
              /\ Truthy(a.result) =>
                     store'[a.job_id].value.result = a.result
              /\ Truthy(a.error_message) =>
                     store'[a.job_id].value.errorMessage = a.error_message
       /\ \A k \in Kinds :
              (/\ loop[k].pc \in {"procSet", "doneSet", "failSet"}
               /\ loop'[k].pc # loop[k].pc
               /\ faults' = faults) =>
                  /\ JobOf(k) \in DOMAIN store'
                  /\ store'[JobOf(k)].value.status =
                         IF loop[k].pc = "procSet" THEN "processing"
                         ELSE IF loop[k].pc = "doneSet" THEN "completed"
                         ELSE "failed"]_vars

\* C33 witness: the loop has written completed with the handler's result
\* between the GET and the SETEX of a call of the route, and the record left
\* by the route's write has the route's status and no result
C33_Witness ==
    \E n \in DOMAIN sent :
        /\ sent[n].id \in DOMAIN store
        /\ Dequeued(n)
        /\ n \in proc /\ n \notin faulted /\ n \notin raised
        /\ loop[sent[n].q].msg = <<>>
        /\ Len(sent) = 1
        /\ caller = IdleCaller /\ calls = 1
        /\ store[sent[n].id].value.status = "processing"
        /\ store[sent[n].id].value.result = Absent
        /\ store[sent[n].id].value.completedAt = <<>>

\* C34: at-most-once processing.  A message a loop holds has left its queue
\* and no other loop holds it; a message that was pushed is never put in a
\* queue again; and the handler is entered for a message only if it was not
\* entered for that message before.
C34_AtMostOnce ==
    /\ [](\A k \in Kinds :
             loop[k].msg # <<>> =>
                 /\ Dequeued(MsgOf(k))
                 /\ \A k2 \in Kinds \ {k} :
                        loop[k2].msg # <<>> => MsgOf(k2) # MsgOf(k))
    /\ [][/\ \A n \in Messages :
                (Pushed(n) /\ ~InQueue(n)) => ~InQueue(n)'
          /\ \A k \in Kinds :
                (loop[k].pc # "handler" /\ loop'[k].pc = "handler") =>
                    MsgOf(k) \notin proc]_vars

\* C34 witness: a message whose handler raised has its failed record, its
\* loop is polling again and the queue is empty
C34_Witness ==
    \E n \in raised :
        /\ PushedOnce(n)
        /\ StatusIn(sent[n].id, {"failed"})
        /\ loop[sent[n].q].pc = "brpop"
        /\ queues[sent[n].q] = <<>>

\* C35 as stated: a job is recorded as failed by the dispatcher only if its
\* handler raised.
C35_FailedOnlyIfRaised ==
    \A n \in Messages :
        (PushedOnce(n) /\ StatusIn(sent[n].id, {"failed"})) => n \in raised

\* C36 as stated: once stop() has been called, be it before start() has
\* begun to run, start() eventually returns with every loop ended.
C36_StopNeverLost ==
    (startPc = "createdStopped" \/ (startPc = "gather" /\ ~running))
        ~> (startPc = "returned" /\ \A k \in Kinds : loop[k].pc = "exit")

\* C37: get_job_result is read-only.  A call of it changes no record and no
\* queue, and the expiration of every stored record stays 24 hours after
\* its last write, however often it was polled since.
C37_PollIsReadOnly ==
    /\ [][\A j \in JobIds :
             Poll(j) => (store' = store /\ queues' = queues)]_vars
    /\ [](\A j \in DOMAIN store :
             /\ written[j] # <<>>
             /\ store[j].expireAt = written[j][1] + TTL)

\* C37 witness: a record that was polled and returned has expired 24 hours
\* after its last write
C37_Witness ==
    \E j \in JobIds :
        /\ polled # <<>>
        /\ polled[1].id = j /\ polled[1].ret # <<>>
        /\ written[j] # <<>>
        /\ now = written[j][1] + TTL
        /\ j \notin DOMAIN store

====
